---- MODULE Spec2Model ----
\* A model of the file indexer of create_index.py and of the catalog schema of
\* schema.py: the SQLite tables are sets of rows, the file system is a small
\* fixed tree, and every handler of FileIndexer is an action.
EXTENDS Integers, Sequences, FiniteSets, TLC

VARIABLES
  fs,                  \* the regular files of the tree: path -> [content, mtime, conv, stat_ok, read_ok]
  fs_order,            \* the order in which the root directory lists its children
  md_exc_attr,         \* whether the MarkItDown object has an UnsupportedFormatException attribute
  now,                 \* the wall clock read by datetime.now()
  files,               \* table files
  directories,         \* table directories
  directory_docs,      \* table directory_docs
  directory_tags,      \* table directory_tags
  directory_relations, \* table directory_relations
  processing_queue,    \* table processing_queue
  file_formats,        \* table file_formats
  supported_formats,   \* FileIndexer.supported_formats
  loaded_from,         \* history: the file_formats rows read when the FileIndexer was constructed
  sessions,            \* the add_directory_documentation calls of concurrent processes, by statement
  run,                 \* the traversal of index_directory in progress
  visit,               \* history: the last _process_file call and what it did
  last,                \* history: the last completed call and its result
  calls,               \* history: how many calls of each kind were made
  done_runs,           \* history: a snapshot of the catalog at the end of every run
  doc_log              \* history: the add_directory_documentation calls that returned True

tables == <<files, directories, directory_docs, directory_tags,
            directory_relations, processing_queue, file_formats>>

vars == <<fs, fs_order, md_exc_attr, now, files, directories, directory_docs,
          directory_tags, directory_relations, processing_queue, file_formats,
          supported_formats, loaded_from, sessions, run, visit, last, calls,
          done_runs, doc_log>>

\* ---------------------------------------------------------------- bounds

MaxRuns == 2
MaxFsChanges == 1
MaxClock == 1
MaxDocCalls == 2
MaxTagCalls == 2
MaxRelCalls == 1
MaxFaults == 1
MaxToggles == 1
MaxInits == 1

\* ---------------------------------------------------------------- values

\* SQL NULL and Python None; a present value x is the one-element tuple <<x>>.
NULL == <<>>
None == <<>>
Some(x) == <<x>>

Max(S) == CHOOSE m \in S : \A x \in S : x <= m

\* Strings the code takes apart are sequences of one-character strings.
lower_char(c) ==
  CASE c = "T" -> "t"
    [] c = "X" -> "x"
    [] OTHER -> c

RECURSIVE lower(_)
lower(s) == IF s = <<>> THEN <<>> ELSE <<lower_char(Head(s))>> \o lower(Tail(s))

RECURSIVE lstrip(_, _)
lstrip(s, c) == IF s # <<>> /\ Head(s) = c THEN lstrip(Tail(s), c) ELSE s

\* str.rfind('.') as a 1-based index, 0 when there is no dot.
rfind(s, c) ==
  LET I == {i \in 1..Len(s) : s[i] = c} IN IF I = {} THEN 0 ELSE Max(I)

\* pathlib's PurePath.suffix of a file name.
suffix(name) ==
  LET i == rfind(name, ".")
  IN IF 1 < i /\ i < Len(name) THEN SubSeq(name, i, Len(name)) ELSE <<>>

\* ---------------------------------------------------------------- the tree

P_root == << <<"/">>, <<"r">> >>
P_a == Append(P_root, <<"a", ".", "t", "x", "t">>)
P_b == Append(P_root, <<"b", ".", "x", "y", "z">>)
P_d == Append(P_root, <<"d">>)
P_c == Append(P_d, <<"c", ".", "T", "X", "T">>)
P_nx == << <<"/">>, <<"n", "x">> >>

FilePaths == {P_a, P_b, P_c}
DirPaths == {P_root, P_d}
Roots == {P_root, P_d, P_nx}
ConvOutcomes == {"text", "unsupported", "error"}

exists(p) == p \in FilePaths \cup DirPaths
is_file(p) == p \in FilePaths
is_dir(p) == p \in DirPaths
name(p) == p[Len(p)]
parent(p) == SubSeq(p, 1, Len(p) - 1)
parts(p) == p

\* The entries a directory lists, in listing order.
listdir(order, d) ==
  IF d = P_root THEN order ELSE IF d = P_d THEN <<P_c>> ELSE <<>>

RECURSIVE flatten(_)
flatten(ss) == IF ss = <<>> THEN <<>> ELSE Head(ss) \o flatten(Tail(ss))

\* Path.rglob('*'): the entries of the directory, then those of each
\* subdirectory; the starting directory itself is not among them.
RECURSIVE rglob(_, _)
rglob(order, d) ==
  LET kids == listdir(order, d)
  IN kids \o flatten([i \in 1..Len(kids) |->
                        IF is_dir(kids[i]) THEN rglob(order, kids[i]) ELSE <<>>])

\* The orders in which the root may list its children: a subdirectory first,
\* last or between the files.
ListingOrders == {<<P_a, P_b, P_d>>, <<P_d, P_b, P_a>>, <<P_b, P_d, P_a>>}

\* The files somebody rewrites between runs.
ModifiablePaths == {P_c}


\* ---------------------------------------------------------------- schema.py

\* get_supported_formats(): the built-in extensions, in list order.
get_supported_formats ==
  << <<"p","d","f">>, <<"p","p","t","x">>, <<"p","p","t">>, <<"d","o","c","x">>,
     <<"d","o","c">>, <<"x","l","s","x">>, <<"x","l","s">>, <<"j","p","g">>,
     <<"j","p","e","g">>, <<"p","n","g">>, <<"g","i","f">>, <<"m","p","3">>,
     <<"w","a","v">>, <<"h","t","m","l">>, <<"h","t","m">>, <<"c","s","v">>,
     <<"j","s","o","n">>, <<"x","m","l">>, <<"z","i","p">>, <<"t","x","t">> >>

\* The id SQLite gives a row inserted without one into an INTEGER PRIMARY KEY
\* table: one more than the largest id in the table, the row an INSERT OR
\* REPLACE is about to delete included.
new_id(table) == IF table = {} THEN 1 ELSE Max({r.id : r \in table}) + 1

\* INSERT OR REPLACE in place of INSERT OR IGNORE: the old row is deleted and
\* the new one takes the column defaults.
insert_format_replace(ff, ext) ==
  {r \in ff : r.extension # ext}
    \cup {[id |-> new_id(ff), extension |-> ext, is_enabled |-> TRUE]}

\* INSERT OR IGNORE INTO file_formats: the UNIQUE extension keeps the old row.
insert_format(ff, ext) ==
  IF \E r \in ff : r.extension = ext THEN ff
  ELSE ff \cup {[id |-> new_id(ff), extension |-> ext, is_enabled |-> TRUE]}

RECURSIVE seed_formats(_, _)
seed_formats(ff, exts) ==
  IF exts = <<>> THEN ff ELSE seed_formats(insert_format(ff, Head(exts)), Tail(exts))

\* init_database(): CREATE TABLE IF NOT EXISTS leaves the tables as they are;
\* the built-in formats are then inserted.
init_database(ff) == seed_formats(ff, get_supported_formats)

\* ---------------------------------------------------------------- create_index.py

\* FileIndexer._get_supported_formats
\* The SELECT without its WHERE is_enabled = TRUE.
enabled_formats_all(ff) == {r.extension : r \in ff}

enabled_formats(ff) == {r.extension : r \in {x \in ff : x.is_enabled}}

\* A digest of something other than the content read.
calculate_checksum_fixed(f) == Some(<<"md5", "v1">>)

\* FileIndexer._calculate_checksum: the MD5 digest of the content, None when
\* the file cannot be opened or read.
calculate_checksum(f) == IF f.read_ok THEN Some(<<"md5", f.content>>) ELSE None

\* MarkItDown.convert on a file whose conversion succeeds.
text_content(f) == Some(<<"markdown", f.content>>)

file_extension(path) == lstrip(lower(suffix(name(path))), ".")

\* The file_info of _process_file before the conversion is tried.
file_info(path, f, t) ==
  [file_path |-> path,
   file_name |-> name(path),
   file_extension |-> file_extension(path),
   modified_at |-> f.mtime,
   indexed_at |-> t,
   checksum |-> calculate_checksum(f),
   processing_status |-> "skipped",
   markdown_content |-> NULL,
   error_message |-> NULL]

\* _process_file with the eligibility test of line 88 left out: the converter
\* is tried on every file.
process_file_no_test(path, f, formats, has_attr, t) ==
  LET info == file_info(path, f, t)
  IN IF f.conv = "text"
     THEN [info |-> Some([info EXCEPT !.markdown_content = text_content(f),
                                      !.processing_status = "processed"]),
           converted |-> TRUE]
     ELSE [info |-> Some([info EXCEPT !.processing_status = "failed",
                                      !.error_message = <<"e">>]),
           converted |-> TRUE]

\* FileIndexer._process_file: the file_info returned (None when the outer
\* handler caught an exception) and whether the converter was called.  An
\* os.stat that raises is caught by the outer handler.  The
\* first except clause evaluates self.md.UnsupportedFormatException; when the
\* MarkItDown object has no such attribute, that raises AttributeError while
\* any converter exception is handled, and the outer handler returns None.
process_file(path, f, formats, has_attr, t) ==
  LET info == file_info(path, f, t)
      ext == info.file_extension
  IN IF ~f.stat_ok
     THEN [info |-> None, converted |-> FALSE]
     ELSE IF ext \in formats
     THEN CASE f.conv = "text" ->
                 [info |-> Some([info EXCEPT !.markdown_content = text_content(f),
                                             !.processing_status = "processed"]),
                  converted |-> TRUE]
            [] f.conv # "text" /\ ~has_attr ->
                 [info |-> None, converted |-> TRUE]
            [] f.conv = "unsupported" /\ has_attr ->
                 [info |-> Some([info EXCEPT !.processing_status = "skipped",
                                             !.error_message = <<"Unsupported format: ", "e">>]),
                  converted |-> TRUE]
            [] OTHER ->
                 [info |-> Some([info EXCEPT !.processing_status = "failed",
                                             !.error_message = <<"e">>]),
                  converted |-> TRUE]
     ELSE [info |-> Some([info EXCEPT !.processing_status = "skipped",
                                      !.error_message = <<"Unsupported file format: .">> \o ext]),
           converted |-> FALSE]

\* A plain INSERT in place of INSERT OR REPLACE, on a table without UNIQUE.
upsert_file_insert(fl, info) ==
  fl \cup {[id |-> new_id(fl),
            file_path |-> info.file_path,
            file_name |-> info.file_name,
            file_extension |-> info.file_extension,
            modified_at |-> info.modified_at,
            indexed_at |-> info.indexed_at,
            checksum |-> info.checksum,
            markdown_content |-> info.markdown_content,
            processing_status |-> info.processing_status,
            error_message |-> info.error_message]}

\* INSERT OR REPLACE INTO files: the row with the same file_path is deleted
\* and the new row gets a fresh id.
upsert_file(fl, info) ==
  {r \in fl : r.file_path # info.file_path}
    \cup {[id |-> new_id(fl),
           file_path |-> info.file_path,
           file_name |-> info.file_name,
           file_extension |-> info.file_extension,
           modified_at |-> info.modified_at,
           indexed_at |-> info.indexed_at,
           checksum |-> info.checksum,
           markdown_content |-> info.markdown_content,
           processing_status |-> info.processing_status,
           error_message |-> info.error_message]}

\* SELECT id FROM files WHERE file_path = ?
file_id(fl, path) ==
  LET S == {r.id : r \in {x \in fl : x.file_path = path}}
  IN IF S = {} THEN NULL ELSE Some(Max(S))

\* A queue that takes no second pending row.
enqueue_once(q, fid, t) ==
  IF \E r \in q : r.status = "pending"
  THEN q
  ELSE q \cup {[id |-> new_id(q), file_id |-> fid, status |-> "pending", created_at |-> t]}

\* INSERT INTO processing_queue (file_id, status, created_at)
enqueue(q, fid, t) ==
  q \cup {[id |-> new_id(q), file_id |-> fid, status |-> "pending", created_at |-> t]}

\* A save whose transaction is never committed: nothing becomes durable.
save_to_db_no_commit(fl, q, info, t) ==
  [files |-> fl, queue |-> q, committed |-> TRUE]

\* A save that queues every file, whatever its status.
save_to_db_enqueue_all(fl, q, info, t) ==
  LET fl2 == upsert_file(fl, info)
  IN [files |-> fl2,
      queue |-> enqueue(q, file_id(fl2, info.file_path), t),
      committed |-> TRUE]

\* FileIndexer._save_to_db, the transaction that commits.
save_to_db(fl, q, info, t) ==
  LET fl2 == upsert_file(fl, info)
  IN [files |-> fl2,
      queue |-> IF info.processing_status = "processed"
                THEN enqueue(q, file_id(fl2, info.file_path), t)
                ELSE q,
      committed |-> TRUE]

\* A plain INSERT in place of INSERT OR REPLACE, on a table without UNIQUE.
upsert_directory_insert(dirs, p, t) ==
  dirs \cup {[id |-> new_id(dirs),
              dir_path |-> p,
              dir_name |-> name(p),
              parent_dir_path |-> parent(p),
              depth |-> Len(parts(p)),
              indexed_at |-> t,
              last_documented_at |-> NULL]}

\* An UPDATE of the existing row in place of INSERT OR REPLACE: the id and
\* last_documented_at are kept.
upsert_directory_in_place(dirs, p, t) ==
  IF \E r \in dirs : r.dir_path = p
  THEN {IF r.dir_path = p THEN [r EXCEPT !.indexed_at = t] ELSE r : r \in dirs}
  ELSE dirs \cup {[id |-> new_id(dirs),
                   dir_path |-> p,
                   dir_name |-> name(p),
                   parent_dir_path |-> parent(p),
                   depth |-> Len(parts(p)),
                   indexed_at |-> t,
                   last_documented_at |-> NULL]}

\* INSERT OR REPLACE INTO directories: columns not named get their defaults.
upsert_directory(dirs, p, t) ==
  {r \in dirs : r.dir_path # p}
    \cup {[id |-> new_id(dirs),
           dir_path |-> p,
           dir_name |-> name(p),
           parent_dir_path |-> parent(p),
           depth |-> Len(parts(p)),
           indexed_at |-> t,
           last_documented_at |-> NULL]}

\* The statements of _save_to_db and _process_directory at which sqlite3 can
\* raise: the upsert, the queue insert, the commit.
SaveFaults == {"files", "queue", "commit"}

\* What the open transaction of _save_to_db has written when statement k raises.
save_written(fl, q, info, t, k) ==
  LET fl2 == upsert_file(fl, info)
  IN CASE k = "files" -> [files |-> fl, queue |-> q]
       [] k = "queue" -> [files |-> fl2, queue |-> q]
       [] k = "commit" ->
            [files |-> fl2,
             queue |-> IF info.processing_status = "processed"
                       THEN enqueue(q, file_id(fl2, info.file_path), t)
                       ELSE q]

\* A handler that leaves the statements of the failed transaction in place.
save_rollback_partial(before, written) == written

\* conn.rollback() in the except clause: the tables are as before the call.
save_rollback(before, written) == before

\* FileIndexer._save_to_db when statement k raises sqlite3.Error: rollback,
\* return False.
save_to_db_fails(fl, q, info, t, k) ==
  LET kept == save_rollback([files |-> fl, queue |-> q], save_written(fl, q, info, t, k))
  IN [files |-> kept.files, queue |-> kept.queue, committed |-> FALSE]

\* FileIndexer._process_directory, the transaction that commits.
process_directory(dirs, p, t) == upsert_directory(dirs, p, t)

\* FileIndexer._process_directory when statement k raises sqlite3.Error:
\* rollback, return False.
process_directory_fails(dirs, p, t, k) ==
  save_rollback(dirs, IF k = "commit" THEN upsert_directory(dirs, p, t) ELSE dirs)


\* ---------------------------------------------------------------- annotations

\* The same SELECT without its WHERE clause: the id of whatever row there is.
directory_id_any(dirs, path) ==
  LET S == {r.id : r \in dirs}
  IN IF S = {} THEN NULL ELSE Some(Max(S))

\* SELECT id FROM directories WHERE dir_path = ?
directory_id(dirs, path) ==
  LET S == {r.id : r \in {x \in dirs : x.dir_path = path}}
  IN IF S = {} THEN NULL ELSE Some(Max(S))

\* SELECT MAX(version) FROM directory_docs WHERE directory_id = ?, or 0, plus 1.
next_version(docs, id) ==
  LET V == {r.version : r \in {x \in docs : x.directory_id = id}}
  IN (IF V = {} THEN 0 ELSE Max(V)) + 1

\* The UPDATE of lines 250-254 left out.
clear_current_skipped(docs, id) == docs

\* UPDATE directory_docs SET is_current = FALSE WHERE directory_id = ?
clear_current(docs, id) ==
  {IF r.directory_id = id THEN [r EXCEPT !.is_current = FALSE] ELSE r : r \in docs}

\* INSERT INTO directory_docs (..., is_current) VALUES (..., TRUE)
insert_doc(docs, id, version, title, t) ==
  docs \cup {[id |-> new_id(docs), directory_id |-> id, version |-> version,
              title |-> title, created_at |-> t, is_current |-> TRUE]}

\* A directory_docs table declared without UNIQUE (directory_id, version).
doc_conflict_unchecked(docs, id, version) == FALSE

\* UNIQUE (directory_id, version): the INSERT of this pair raises
\* sqlite3.IntegrityError when a row already has it.
doc_conflict(docs, id, version) ==
  \E r \in docs : r.directory_id = id /\ r.version = version

\* UPDATE directories SET last_documented_at = ? WHERE id = ?
stamp_documented(dirs, id, t) ==
  {IF r.id = id THEN [r EXCEPT !.last_documented_at = Some(t)] ELSE r : r \in dirs}

\* The uncommitted state of add_directory_documentation's connection after
\* the first k of its three write statements.
doc_transaction(docs, dirs, id, title, t, k) ==
  LET v == next_version(docs, id)
      d1 == IF k >= 1 THEN clear_current(docs, id) ELSE docs
      d2 == IF k >= 2 THEN insert_doc(d1, id, v, title, t) ELSE d1
  IN [docs |-> d2,
      dirs |-> IF k >= 3 THEN stamp_documented(dirs, id, t) ELSE dirs,
      version |-> v]

\* A handler that commits what was written so far instead of rolling back.
rollback_partial(before, written) == written

\* conn.rollback() in the except clause: the committed state is the one
\* before the call.
rollback(before, written) == before

\* INSERT OR REPLACE in place of INSERT OR IGNORE.
insert_tag_replace(tg, id, tag, t, by) ==
  {r \in tg : ~(r.directory_id = id /\ r.tag_name = tag)}
    \cup {[id |-> new_id(tg), directory_id |-> id, tag_name |-> tag,
           created_at |-> t, created_by |-> by]}

\* INSERT OR IGNORE INTO directory_tags: UNIQUE (directory_id, tag_name)
\* keeps the row that is there.
insert_tag(tg, id, tag, t, by) ==
  IF \E r \in tg : r.directory_id = id /\ r.tag_name = tag THEN tg
  ELSE tg \cup {[id |-> new_id(tg), directory_id |-> id, tag_name |-> tag,
                 created_at |-> t, created_by |-> by]}

\* The loop of add_directory_tags over its tags.
RECURSIVE insert_tags(_, _, _, _, _)
insert_tags(tg, id, tags, t, by) ==
  IF tags = <<>> THEN tg
  ELSE insert_tags(insert_tag(tg, id, Head(tags), t, by), id, Tail(tags), t, by)

\* An outer join in place of the inner join: a missing endpoint gives a row
\* with a NULL id.
relation_pairs_outer(dirs, source, target) ==
  {<<directory_id(dirs, source), directory_id(dirs, target)>>}

\* SELECT d1.id, d2.id FROM directories d1, directories d2
\* WHERE d1.dir_path = ? AND d2.dir_path = ?
relation_pairs(dirs, source, target) ==
  {<<Some(d1.id), Some(d2.id)>> :
     d1 \in {x \in dirs : x.dir_path = source},
     d2 \in {x \in dirs : x.dir_path = target}}

\* INSERT INTO directory_relations ... SELECT: one row per selected pair.
RECURSIVE insert_relations(_, _, _, _)
insert_relations(rel, pairs, type, t) ==
  IF pairs = {} THEN rel
  ELSE LET pr == CHOOSE x \in pairs : TRUE
       IN insert_relations(
            rel \cup {[id |-> new_id(rel), source_dir_id |-> pr[1],
                       target_dir_id |-> pr[2], relation_type |-> type,
                       created_at |-> t]},
            pairs \ {pr}, type, t)

\* ---------------------------------------------------------------- state

NoRun ==
  [active |-> FALSE, root |-> <<>>, todo |-> <<>>, total_files |-> 0,
   saved |-> {}, failed |-> {}, registry |-> {}]

idle == ~run.active

\* What the last call was and what it returned.
Result(op, seq, ok, path, other, tags, by) ==
  [op |-> op, seq |-> seq, ok |-> ok, path |-> path, other |-> other,
   tags |-> tags, by |-> by]

ncalls == calls.runs + calls.docs + calls.tags + calls.rels + calls.inits

\* What a run leaves behind, kept to compare one run with the next.
snapshot(root, fl, dirs, q, failed) ==
  [root |-> root,
   failed |-> failed,
   fsver |-> calls.fs,
   at |-> now,
   fs |-> fs,
   files |-> fl,
   n_files |-> Cardinality(fl),
   n_dirs |-> Cardinality(dirs),
   n_queue |-> Cardinality(q),
   sums |-> {<<r.file_path, r.checksum>> : r \in fl}]

\* The processes that call add_directory_documentation on one database file.
Processes == {"p1", "p2"}

\* A process that is not inside add_directory_documentation.
NoSession ==
  [pc |-> "idle", path |-> <<>>, title |-> "", dir_id |-> 0, version |-> 0,
   docs |-> {}, dirs |-> {}, ok |-> FALSE, error |-> ""]

Init ==
  /\ fs \in {[p \in FilePaths |->
                [content |-> "v1", mtime |-> 0,
                 conv |-> IF p = P_a THEN c ELSE "text",
                 stat_ok |-> TRUE, read_ok |-> TRUE]] : c \in ConvOutcomes}
  /\ fs_order \in ListingOrders
  /\ md_exc_attr \in BOOLEAN
  /\ now = 0
  /\ files = {}
  /\ directories = {}
  /\ directory_docs = {}
  /\ directory_tags = {}
  /\ directory_relations = {}
  /\ processing_queue = {}
  /\ file_formats = init_database({})
  /\ supported_formats = enabled_formats(file_formats)
  /\ loaded_from = file_formats
  /\ sessions = [s \in Processes |-> NoSession]
  /\ run = NoRun
  /\ visit = <<>>
  /\ last = Result("init", 0, TRUE, <<>>, <<>>, <<>>, "")
  /\ calls = [runs |-> 0, fs |-> 0, docs |-> 0, tags |-> 0, rels |-> 0,
              inits |-> 0, toggles |-> 0, faults |-> 0]
  /\ done_runs = <<>>
  /\ doc_log = <<>>

\* ---------------------------------------------------------------- environment

\* Time passes between two calls.
Tick ==
  /\ idle
  /\ now < MaxClock
  /\ now' = now + 1
  /\ UNCHANGED <<fs, fs_order, md_exc_attr, tables, supported_formats, loaded_from, sessions, run,
                 visit, last, calls, done_runs, doc_log>>

\* Somebody rewrites a file between two runs.
ModifyFile(p) ==
  /\ idle
  /\ calls.fs < MaxFsChanges
  /\ fs' = [fs EXCEPT ![p] = [@ EXCEPT !.content = IF @ = "v1" THEN "v2" ELSE "v1",
                                       !.mtime = now]]
  /\ calls' = [calls EXCEPT !.fs = @ + 1]
  /\ UNCHANGED <<fs_order, md_exc_attr, now, tables, supported_formats, loaded_from, sessions, run,
                 visit, last, done_runs, doc_log>>

\* The ways a regular file can stop answering: os.stat raises, or open/read
\* raises.
IOFailures == {"stat", "read"}

\* A file becomes unreadable, or vanishes so that os.stat raises, at any time,
\* also between is_file() and _process_file.
BreakFile(p, kind) ==
  /\ calls.fs < MaxFsChanges
  /\ IF kind = "stat"
     THEN fs[p].stat_ok /\ fs' = [fs EXCEPT ![p].stat_ok = FALSE]
     ELSE fs[p].read_ok /\ fs' = [fs EXCEPT ![p].read_ok = FALSE]
  /\ calls' = [calls EXCEPT !.fs = @ + 1]
  /\ UNCHANGED <<fs_order, md_exc_attr, now, tables, supported_formats,
                 loaded_from, sessions, run, visit, last, done_runs, doc_log>>

\* The extensions somebody enables or disables in file_formats.
ToggleExts == {<<"t", "x", "t">>}

\* UPDATE file_formats SET is_enabled = NOT is_enabled WHERE extension = ext,
\* issued on the database file by its operator, at any time.
ToggleFormat(ext) ==
  /\ calls.toggles < MaxToggles
  /\ file_formats' = {[r EXCEPT !.is_enabled = IF r.extension = ext THEN ~@ ELSE @] :
                        r \in file_formats}
  /\ calls' = [calls EXCEPT !.toggles = @ + 1]
  /\ UNCHANGED <<fs, fs_order, md_exc_attr, now, files, directories, directory_docs,
                 directory_tags, directory_relations, processing_queue,
                 supported_formats, loaded_from, sessions, run, visit, last,
                 done_runs, doc_log>>

\* FileIndexer(): a new indexer object on the existing database file reads
\* the enabled extensions.
NewIndexer ==
  /\ idle
  /\ supported_formats' = enabled_formats(file_formats)
  /\ loaded_from' = file_formats
  /\ UNCHANGED <<fs, fs_order, md_exc_attr, now, tables, sessions, run, visit,
                 last, calls, done_runs, doc_log>>

\* init_database() run again on the initialized database file.
InitDatabase ==
  /\ idle
  /\ calls.inits < MaxInits
  /\ file_formats' = init_database(file_formats)
  /\ calls' = [calls EXCEPT !.inits = @ + 1]
  /\ last' = Result("init_database", ncalls + 1, TRUE, <<>>, <<>>, <<>>, "")
  /\ UNCHANGED <<fs, fs_order, md_exc_attr, now, files, directories, directory_docs,
                 directory_tags, directory_relations, processing_queue,
                 supported_formats, loaded_from, sessions, run, visit,
                 done_runs, doc_log>>

\* ---------------------------------------------------------------- index_directory

\* index_directory on a path that does not exist: logged, nothing done.
IndexMissingRoot(root) ==
  /\ idle
  /\ calls.runs < MaxRuns
  /\ ~exists(root)
  /\ calls' = [calls EXCEPT !.runs = @ + 1]
  /\ last' = Result("index_directory", ncalls + 1, FALSE, root, <<>>, <<>>, "")
  /\ UNCHANGED <<fs, fs_order, md_exc_attr, now, tables, supported_formats, loaded_from, sessions, run,
                 visit, done_runs, doc_log>>

\* index_directory up to the first entry of the traversal.
StartRun(root) ==
  /\ idle
  /\ calls.runs < MaxRuns
  /\ exists(root)
  /\ LET todo == rglob(fs_order, root)
     IN run' = [active |-> TRUE, root |-> root, todo |-> todo,
                total_files |-> Cardinality({i \in 1..Len(todo) : is_file(todo[i])}),
                saved |-> {}, failed |-> {},
                registry |-> file_formats]
  /\ calls' = [calls EXCEPT !.runs = @ + 1]
  /\ UNCHANGED <<fs, fs_order, md_exc_attr, now, tables, supported_formats, loaded_from, sessions,
                 visit, last, done_runs, doc_log>>

\* The loop moves on; after the last entry the run logs its summary and returns.
\* ok tells whether the save of the entry just visited completed.
NextEntry(fl, dirs, q, ok) ==
  LET p == Head(run.todo)
      failed == IF ok THEN run.failed ELSE run.failed \cup {p}
  IN IF Tail(run.todo) = <<>>
     THEN /\ run' = NoRun
          /\ done_runs' = Append(done_runs, snapshot(run.root, fl, dirs, q, failed))
          /\ last' = Result("index_directory", ncalls, TRUE, run.root, <<>>, <<>>, "")
     ELSE /\ run' = [run EXCEPT !.todo = Tail(@),
                                !.saved = IF ok THEN @ \cup {p} ELSE @,
                                !.failed = failed]
          /\ UNCHANGED <<done_runs, last>>

\* One pass of the loop over a regular file: _process_file, then _save_to_db;
\* k names the statement of _save_to_db at which sqlite3 raises, "none" when
\* none does.
VisitFileStep(k) ==
  /\ run.active
  /\ run.todo # <<>>
  /\ is_file(Head(run.todo))
  /\ LET p == Head(run.todo)
         r == process_file(p, fs[p], supported_formats, md_exc_attr, now)
         saved == IF r.info = None
                  THEN [files |-> files, queue |-> processing_queue, committed |-> FALSE]
                  ELSE IF k = "none"
                       THEN save_to_db(files, processing_queue, r.info[1], now)
                       ELSE save_to_db_fails(files, processing_queue, r.info[1], now, k)
     IN /\ k # "none" => r.info # None /\ calls.faults < MaxFaults
        /\ k = "queue" => r.info[1].processing_status = "processed"
        /\ files' = saved.files
        /\ processing_queue' = saved.queue
        /\ visit' = Some([path |-> p,
                          formats |-> supported_formats,
                          conv |-> fs[p].conv,
                          stat_ok |-> fs[p].stat_ok,
                          read_ok |-> fs[p].read_ok,
                          converted |-> r.converted,
                          info |-> r.info,
                          registry |-> run.registry,
                          loaded_from |-> loaded_from,
                          fault |-> k,
                          at |-> now,
                          saved |-> saved.committed])
        /\ NextEntry(saved.files, directories, saved.queue, saved.committed)
  /\ UNCHANGED <<fs, fs_order, md_exc_attr, now, directories, directory_docs,
                 directory_tags, directory_relations, file_formats,
                 supported_formats, loaded_from, sessions, doc_log>>
  /\ calls' = IF k = "none" THEN calls ELSE [calls EXCEPT !.faults = @ + 1]

VisitFile == VisitFileStep("none")

\* The same pass when the upsert, the queue insert or the commit raises.
VisitFileSaveFails == \E k \in SaveFaults : VisitFileStep(k)

\* One pass of the loop over a directory: _process_directory; k as above.
VisitDirectoryStep(k) ==
  /\ run.active
  /\ run.todo # <<>>
  /\ is_dir(Head(run.todo))
  /\ k # "queue"
  /\ k # "none" => calls.faults < MaxFaults
  /\ calls' = IF k = "none" THEN calls ELSE [calls EXCEPT !.faults = @ + 1]
  /\ directories' = IF k = "none"
                    THEN process_directory(directories, Head(run.todo), now)
                    ELSE process_directory_fails(directories, Head(run.todo), now, k)
  /\ NextEntry(files, directories', processing_queue, k = "none")
  /\ UNCHANGED <<fs, fs_order, md_exc_attr, now, files, directory_docs,
                 directory_tags, directory_relations, processing_queue,
                 file_formats, supported_formats, loaded_from, sessions, visit,
                 doc_log>>

VisitDirectory == VisitDirectoryStep("none")

\* The same pass when the upsert or the commit raises.
VisitDirectoryFails == \E k \in SaveFaults : VisitDirectoryStep(k)

\* The process dies in the middle of a run: what was committed stays.
Crash ==
  /\ run.active
  /\ run' = [run EXCEPT !.active = FALSE]
  /\ UNCHANGED <<fs, fs_order, md_exc_attr, now, tables, supported_formats,
                 loaded_from, sessions, visit, last, calls, done_runs, doc_log>>

\* ---------------------------------------------------------------- annotation calls

AnnotPaths == {P_d, P_root}
Titles == {"T1", "T2"}
TagLists == {<<"x">>, <<"x", "y", "x">>}
Authors == {"system", "bob"}
RelationTypes == {"depends"}

\* add_directory_documentation on a cataloged directory, committed.
AddDocumentation(path, title) ==
  /\ idle
  /\ calls.docs < MaxDocCalls
  /\ directory_id(directories, path) # NULL
  /\ LET id == directory_id(directories, path)[1]
         w == doc_transaction(directory_docs, directories, id, title, now, 3)
     IN /\ directory_docs' = w.docs
        /\ directories' = w.dirs
        /\ doc_log' = Append(doc_log, [dir_id |-> id, title |-> title])
  /\ calls' = [calls EXCEPT !.docs = @ + 1]
  /\ last' = Result("add_directory_documentation", ncalls + 1, TRUE, path, <<>>, <<>>, "")
  /\ UNCHANGED <<fs, fs_order, md_exc_attr, now, files, directory_tags,
                 directory_relations, processing_queue, file_formats,
                 supported_formats, loaded_from, sessions, run, visit, done_runs>>

\* add_directory_documentation on a path with no directories row: False.
AddDocumentationNotFound(path, title) ==
  /\ idle
  /\ calls.docs < MaxDocCalls
  /\ directory_id(directories, path) = NULL
  /\ calls' = [calls EXCEPT !.docs = @ + 1]
  /\ last' = Result("add_directory_documentation", ncalls + 1, FALSE, path, <<>>, <<>>, "")
  /\ UNCHANGED <<fs, fs_order, md_exc_attr, now, tables, supported_formats, loaded_from, sessions, run,
                 visit, done_runs, doc_log>>

\* add_directory_documentation when the statement after the first k writes
\* (or, for k = 3, the commit) raises: the handler rolls back and returns False.
AddDocumentationFails(path, title, k) ==
  /\ idle
  /\ calls.docs < MaxDocCalls
  /\ directory_id(directories, path) # NULL
  /\ LET id == directory_id(directories, path)[1]
         w == doc_transaction(directory_docs, directories, id, title, now, k)
         c == rollback([docs |-> directory_docs, dirs |-> directories], w)
     IN /\ directory_docs' = c.docs
        /\ directories' = c.dirs
  /\ calls' = [calls EXCEPT !.docs = @ + 1]
  /\ last' = Result("add_directory_documentation", ncalls + 1, FALSE, path, <<>>, <<>>, "")
  /\ UNCHANGED <<fs, fs_order, md_exc_attr, now, files, directory_tags,
                 directory_relations, processing_queue, file_formats,
                 supported_formats, loaded_from, sessions, run, visit, done_runs, doc_log>>

\* -------- add_directory_documentation, statement by statement, by processes
\* that share the database file.  A connection reads the committed tables;
\* its first write statement begins a transaction and takes the write lock
\* of the file, which it holds until it commits or rolls back.

\* The process whose connection holds the write lock, if any.
writers == {s \in Processes : sessions[s].pc \in {"updated", "inserted", "stamped"}}

\* The call returns: the connection is closed, the outcome is kept.
finished(s, ok, error) ==
  [sessions EXCEPT ![s] = [@ EXCEPT !.pc = "idle", !.docs = {}, !.dirs = {},
                                    !.ok = ok, !.error = error]]

\* The two SELECTs: the directory id and MAX(version) + 1, read from the
\* committed tables.
DocRead(s, path, title) ==
  /\ idle
  /\ calls.docs < MaxDocCalls
  /\ sessions[s].pc = "idle"
  /\ directory_id(directories, path) # NULL
  /\ LET id == directory_id(directories, path)[1]
     IN sessions' = [sessions EXCEPT ![s] =
          [pc |-> "read", path |-> path, title |-> title, dir_id |-> id,
           version |-> next_version(directory_docs, id),
           docs |-> {}, dirs |-> {}, ok |-> FALSE, error |-> ""]]
  /\ calls' = [calls EXCEPT !.docs = @ + 1]
  /\ UNCHANGED <<fs, fs_order, md_exc_attr, now, tables, supported_formats,
                 loaded_from, run, visit, last, done_runs, doc_log>>

\* UPDATE directory_docs SET is_current = FALSE: the transaction begins.
DocUpdate(s) ==
  /\ sessions[s].pc = "read"
  /\ writers = {}
  /\ sessions' = [sessions EXCEPT ![s] =
       [@ EXCEPT !.pc = "updated",
                 !.docs = clear_current(directory_docs, sessions[s].dir_id),
                 !.dirs = directories]]
  /\ UNCHANGED <<fs, fs_order, md_exc_attr, now, tables, supported_formats,
                 loaded_from, run, visit, last, calls, done_runs, doc_log>>

\* The same UPDATE while another connection holds the write lock until the
\* busy timeout expires: sqlite3.OperationalError, rollback, False.
DocBusy(s) ==
  /\ sessions[s].pc = "read"
  /\ writers # {}
  /\ sessions' = finished(s, FALSE, "locked")
  /\ UNCHANGED <<fs, fs_order, md_exc_attr, now, tables, supported_formats,
                 loaded_from, run, visit, last, calls, done_runs, doc_log>>

\* INSERT INTO directory_docs with the version read before.
DocInsert(s) ==
  /\ sessions[s].pc = "updated"
  /\ ~doc_conflict(sessions[s].docs, sessions[s].dir_id, sessions[s].version)
  /\ sessions' = [sessions EXCEPT ![s] =
       [@ EXCEPT !.pc = "inserted",
                 !.docs = insert_doc(@, sessions[s].dir_id, sessions[s].version,
                                     sessions[s].title, now)]]
  /\ UNCHANGED <<fs, fs_order, md_exc_attr, now, tables, supported_formats,
                 loaded_from, run, visit, last, calls, done_runs, doc_log>>

\* The same INSERT when the pair (directory_id, version) is taken:
\* sqlite3.IntegrityError, rollback, False.
DocInsertConflict(s) ==
  /\ sessions[s].pc = "updated"
  /\ doc_conflict(sessions[s].docs, sessions[s].dir_id, sessions[s].version)
  /\ LET c == rollback([docs |-> directory_docs, dirs |-> directories],
                       [docs |-> sessions[s].docs, dirs |-> sessions[s].dirs])
     IN /\ directory_docs' = c.docs
        /\ directories' = c.dirs
  /\ sessions' = finished(s, FALSE, "unique")
  /\ UNCHANGED <<fs, fs_order, md_exc_attr, now, files, directory_tags,
                 directory_relations, processing_queue, file_formats,
                 supported_formats, loaded_from, run, visit, last, calls,
                 done_runs, doc_log>>

\* UPDATE directories SET last_documented_at.
DocStamp(s) ==
  /\ sessions[s].pc = "inserted"
  /\ sessions' = [sessions EXCEPT ![s] =
       [@ EXCEPT !.pc = "stamped",
                 !.dirs = stamp_documented(@, sessions[s].dir_id, now)]]
  /\ UNCHANGED <<fs, fs_order, md_exc_attr, now, tables, supported_formats,
                 loaded_from, run, visit, last, calls, done_runs, doc_log>>

\* conn.commit(): the writes of the transaction become the committed tables.
DocCommit(s) ==
  /\ sessions[s].pc = "stamped"
  /\ directory_docs' = sessions[s].docs
  /\ directories' = sessions[s].dirs
  /\ sessions' = finished(s, TRUE, "")
  /\ doc_log' = Append(doc_log, [dir_id |-> sessions[s].dir_id, title |-> sessions[s].title])
  /\ UNCHANGED <<fs, fs_order, md_exc_attr, now, files, directory_tags,
                 directory_relations, processing_queue, file_formats,
                 supported_formats, loaded_from, run, visit, last, calls,
                 done_runs>>

\* add_directory_tags on a cataloged directory, committed.
AddTags(path, tags, by) ==
  /\ idle
  /\ calls.tags < MaxTagCalls
  /\ directory_id(directories, path) # NULL
  /\ directory_tags' =
       insert_tags(directory_tags, directory_id(directories, path)[1], tags, now, by)
  /\ calls' = [calls EXCEPT !.tags = @ + 1]
  /\ last' = Result("add_directory_tags", ncalls + 1, TRUE, path, <<>>, tags, by)
  /\ UNCHANGED <<fs, fs_order, md_exc_attr, now, files, directories,
                 directory_docs, directory_relations, processing_queue,
                 file_formats, supported_formats, loaded_from, sessions, run, visit, done_runs, doc_log>>

\* add_directory_tags on a path with no directories row: False.
AddTagsNotFound(path, tags, by) ==
  /\ idle
  /\ calls.tags < MaxTagCalls
  /\ directory_id(directories, path) = NULL
  /\ calls' = [calls EXCEPT !.tags = @ + 1]
  /\ last' = Result("add_directory_tags", ncalls + 1, FALSE, path, <<>>, tags, by)
  /\ UNCHANGED <<fs, fs_order, md_exc_attr, now, tables, supported_formats, loaded_from, sessions, run,
                 visit, done_runs, doc_log>>

\* add_directory_relation, committed: True whatever the SELECT found.
AddRelation(source, target, type) ==
  /\ idle
  /\ calls.rels < MaxRelCalls
  /\ directory_relations' =
       insert_relations(directory_relations,
                        relation_pairs(directories, source, target), type, now)
  /\ calls' = [calls EXCEPT !.rels = @ + 1]
  /\ last' = Result("add_directory_relation", ncalls + 1, TRUE, source, target, <<>>, "")
  /\ UNCHANGED <<fs, fs_order, md_exc_attr, now, files, directories,
                 directory_docs, directory_tags, processing_queue, file_formats,
                 supported_formats, loaded_from, sessions, run, visit, done_runs, doc_log>>

IndexActions ==
  \/ Tick
  \/ \E p \in ModifiablePaths : ModifyFile(p)
  \/ \E root \in Roots : IndexMissingRoot(root)
  \/ \E root \in Roots : StartRun(root)
  \/ VisitFile
  \/ VisitDirectory

\* The indexer alone: runs of index_directory, time and file changes.
SpecIndex == Init /\ [][IndexActions]_vars


\* The annotation calls are checked on one file system, whose conversions
\* succeed: they read and write no file.
AnnotInit ==
  /\ Init
  /\ fs_order = <<P_a, P_b, P_d>>
  /\ md_exc_attr
  /\ fs[P_a].conv = "text"

RunActions ==
  \/ Tick
  \/ \E root \in Roots : IndexMissingRoot(root)
  \/ \E root \in Roots : StartRun(root)
  \/ VisitFile
  \/ VisitDirectory

DocActions ==
  \/ \E path \in AnnotPaths, title \in Titles : AddDocumentation(path, title)
  \/ \E path \in AnnotPaths, title \in Titles : AddDocumentationNotFound(path, title)

DocFailures ==
  \E path \in AnnotPaths, title \in Titles, k \in 0..3 : AddDocumentationFails(path, title, k)

TagActions ==
  \/ \E path \in AnnotPaths, tags \in TagLists, by \in Authors : AddTags(path, tags, by)
  \/ \E path \in AnnotPaths, tags \in TagLists, by \in Authors : AddTagsNotFound(path, tags, by)

RelationActions ==
  \E source \in AnnotPaths, target \in AnnotPaths, type \in RelationTypes :
    AddRelation(source, target, type)

\* Runs interleaved with documentation calls: calls that commit, calls that
\* find no directory and calls whose transaction fails part-way.
SpecDocs == AnnotInit /\ [][RunActions \/ DocActions \/ DocFailures]_vars

\* Runs interleaved with tag calls.
SpecTags == AnnotInit /\ [][RunActions \/ TagActions]_vars

\* Runs interleaved with relation calls.
SpecRelations == AnnotInit /\ [][RunActions \/ RelationActions]_vars

\* Documentation calls of two processes, interleaved statement by statement,
\* between runs of the indexer.
SessionActions ==
  \/ \E s \in Processes : DocRead(s, P_d, "T1")
  \/ \E s \in Processes : DocUpdate(s)
  \/ \E s \in Processes : DocBusy(s)
  \/ \E s \in Processes : DocInsert(s)
  \/ \E s \in Processes : DocInsertConflict(s)
  \/ \E s \in Processes : DocStamp(s)
  \/ \E s \in Processes : DocCommit(s)

\* No documentation call is under way.
quiet == \A s \in Processes : sessions[s].pc = "idle"

\* The runs that catalog the directory, while no call is under way.
QuietRuns ==
  /\ quiet
  /\ \/ \E root \in Roots : StartRun(root)
     \/ VisitFile
     \/ VisitDirectory

SpecConcurrent == AnnotInit /\ [][QuietRuns \/ SessionActions]_vars

\* Runs with a registry that is toggled and initialized again, by indexer
\* objects that are reused or constructed anew.
RegistryActions ==
  \/ RunActions
  \/ \E ext \in ToggleExts : ToggleFormat(ext)
  \/ NewIndexer
  \/ InitDatabase

SpecRegistry == AnnotInit /\ [][RegistryActions]_vars

\* Runs over a tree whose files may stop being readable or stat-able.
IOActions ==
  \/ RunActions
  \/ \E p \in FilePaths, kind \in IOFailures : BreakFile(p, kind)

SpecIO == AnnotInit /\ [][IOActions]_vars

\* Runs in which any store write may fail and the process may die.
FaultActions ==
  \/ RunActions
  \/ VisitFileSaveFails
  \/ VisitDirectoryFails
  \/ Crash

SpecFaults == AnnotInit /\ [][FaultActions]_vars

\* Runs interleaved with documentation and tag calls, one title and one tag
\* list: what the calls do for a path depends on the directories table only.
LookupActions ==
  \/ \E root \in Roots : StartRun(root)
  \/ VisitFile
  \/ VisitDirectory
  \/ \E path \in AnnotPaths : AddDocumentation(path, "T1")
  \/ \E path \in AnnotPaths : AddDocumentationNotFound(path, "T1")
  \/ \E path \in AnnotPaths : AddTags(path, <<"x">>, "system")
  \/ \E path \in AnnotPaths : AddTagsNotFound(path, <<"x">>, "system")

SpecAnnotations == AnnotInit /\ [][LookupActions]_vars

\* Everything that can happen; while a statement-level documentation call is
\* under way only the calls of that kind move.
Next ==
  \/ SessionActions
  \/ /\ quiet
     /\ \/ IndexActions
        \/ DocActions
        \/ DocFailures
        \/ TagActions
        \/ RelationActions
        \/ \E p \in FilePaths, kind \in IOFailures : BreakFile(p, kind)
        \/ VisitFileSaveFails
        \/ VisitDirectoryFails
        \/ Crash
        \/ \E ext \in ToggleExts : ToggleFormat(ext)
        \/ NewIndexer
        \/ InitDatabase

Spec == Init /\ [][Next]_vars

\* ---------------------------------------------------------------- claims on indexing

\* C1: in every reachable state the files table holds at most one row per
\* file_path and the directories table at most one row per dir_path.
C1_OneRowPerPath ==
  /\ \A r1, r2 \in files : r1.file_path = r2.file_path => r1 = r2
  /\ \A d1, d2 \in directories : d1.dir_path = d2.dir_path => d1 = d2

\* A file and a directory were indexed by two completed runs over the same root.
C1_Witness ==
  /\ Len(done_runs) >= 2
  /\ done_runs[1].root = P_root
  /\ done_runs[2].root = P_root
  /\ files # {}
  /\ directories # {}

\* C2: two successive runs over the same root with no file changed between
\* them leave the same number of files rows and of directories rows, and the
\* same checksum for every file path.
C2_Idempotent ==
  \A i \in 1..(Len(done_runs) - 1) :
    (done_runs[i].root = done_runs[i + 1].root /\ done_runs[i].fsver = done_runs[i + 1].fsver)
      => /\ done_runs[i + 1].n_files = done_runs[i].n_files
         /\ done_runs[i + 1].n_dirs = done_runs[i].n_dirs
         /\ done_runs[i + 1].sums = done_runs[i].sums

\* The whole tree was indexed twice in a row, unchanged, and rows exist.
C2_Witness ==
  /\ Len(done_runs) >= 2
  /\ done_runs[1].root = P_root
  /\ done_runs[2].root = P_root
  /\ done_runs[1].fsver = done_runs[2].fsver
  /\ done_runs[2].n_files >= 2
  /\ done_runs[2].n_dirs >= 1

\* C3, as claimed: every processing_queue row's file_id is the id of a row
\* that exists in files.
C3_QueueRefersToFile ==
  \A q \in processing_queue : \E r \in files : q.file_id = Some(r.id)

\* C6, as claimed: after index_directory(R) on an existing root R the
\* directories table has a row for R, and exactly one row when R holds only
\* regular files and the catalog was empty before.
C6_RootCataloged ==
  /\ \A i \in 1..Len(done_runs) :
       \E d \in directories : d.dir_path = done_runs[i].root
  /\ (Len(done_runs) >= 1 /\ done_runs[1].root = P_d) => done_runs[1].n_dirs = 1

\* C7: a file whose lower-cased, dot-stripped extension is not in the enabled
\* set is written as 'skipped' with no extracted text and an error detail that
\* names the extension, and the converter is not called for it.
C7_IneligibleSkipped ==
  \A v \in {visit[i] : i \in DOMAIN visit} :
    LET ext == lstrip(lower(suffix(name(v.path))), ".")
    IN ext \notin v.formats =>
         /\ ~v.converted
         /\ \E r \in files :
              /\ r.file_path = v.path
              /\ r.processing_status = "skipped"
              /\ r.markdown_content = NULL
              /\ r.error_message = <<"Unsupported file format: .">> \o ext

\* The last file visited was b.xyz, whose extension is not registered.
C7_Witness ==
  /\ visit # <<>>
  /\ visit[1].path = P_b
  /\ <<"x", "y", "z">> \notin visit[1].formats
  /\ \E r \in files : r.file_path = P_b

\* C8, as claimed: for an eligible file, text maps to 'processed' with the
\* text stored, 'format unsupported' to 'skipped' and any other failure to
\* 'failed', the last two with an error detail and no text; every files row
\* has one of the three statuses.
C8_OutcomeMapping ==
  /\ \A r \in files : r.processing_status \in {"processed", "skipped", "failed"}
  /\ \A v \in {visit[i] : i \in DOMAIN visit} :
       file_extension(v.path) \in v.formats =>
         \E r \in files :
           /\ r.file_path = v.path
           /\ v.conv = "text" =>
                r.processing_status = "processed" /\ r.markdown_content # NULL
           /\ v.conv = "unsupported" =>
                /\ r.processing_status = "skipped"
                /\ r.error_message # NULL
                /\ r.markdown_content = NULL
           /\ v.conv = "error" =>
                /\ r.processing_status = "failed"
                /\ r.error_message # NULL
                /\ r.markdown_content = NULL


\* ---------------------------------------------------------------- claims on annotations

\* The documentation calls that returned True for the directories row id.
doc_calls_of(id) ==
  LET for_id(e) == e.dir_id = id IN SelectSeq(doc_log, for_id)

\* C4: N successful add_directory_documentation calls for one cataloged
\* directory (one directories row) leave exactly N directory_docs rows for it,
\* with versions 1..N, each holding the content of its call, and exactly the
\* last one (version N) is current.
C4_VersionsOneToN ==
  /\ \A r \in directory_docs : \E i \in DOMAIN doc_log : doc_log[i].dir_id = r.directory_id
  /\ \A id \in {doc_log[i].dir_id : i \in DOMAIN doc_log} :
       LET cs == doc_calls_of(id)
           rows == {r \in directory_docs : r.directory_id = id}
       IN /\ Cardinality(rows) = Len(cs)
          /\ {r.version : r \in rows} = 1..Len(cs)
          /\ \A r \in rows : /\ r.title = cs[r.version].title
                             /\ r.is_current <=> r.version = Len(cs)

\* Two calls succeeded for the same directories row, with different content.
C4_Witness ==
  \E id \in {doc_log[i].dir_id : i \in DOMAIN doc_log} :
    /\ Len(doc_calls_of(id)) = 2
    /\ doc_calls_of(id)[1].title # doc_calls_of(id)[2].title
    /\ \E d \in directories : d.id = id

\* At most one current documentation row per directory.
C5_OneCurrent ==
  \A r1, r2 \in directory_docs :
    (r1.directory_id = r2.directory_id /\ r1.is_current /\ r2.is_current) => r1 = r2

\* A step of a documentation call shows all of its writes or none of them.
C5_DocStep ==
  LET failed == /\ last'.seq # last.seq
                /\ last'.op = "add_directory_documentation"
                /\ ~last'.ok
      stamped == \E d \in directories, e \in directories' :
                   d.id = e.id /\ d.last_documented_at # e.last_documented_at
  IN /\ failed => UNCHANGED tables
     /\ (directory_docs' # directory_docs \/ stamped) =>
          \E d \in directories :
            /\ \A r \in directory_docs :
                 r.directory_id = d.id => [r EXCEPT !.is_current = FALSE] \in directory_docs'
            /\ \E n \in directory_docs' \ directory_docs :
                 /\ n.directory_id = d.id
                 /\ n.is_current
                 /\ \A r \in directory_docs : r.directory_id = d.id => r.version < n.version
            /\ \E e \in directories' : e.id = d.id /\ e.last_documented_at = Some(now)

\* C5: in every committed state, also after a documentation call that failed
\* part-way and rolled back, at most one directory_docs row per directory is
\* current; the clearing of the old flags, the new current row and the
\* last_documented_at stamp appear in one step or not at all.
C5_SingleCurrentAtomic == [](C5_OneCurrent) /\ [][C5_DocStep]_vars

\* A call on a documented directory has just failed and rolled back.
C5_Witness ==
  /\ last.op = "add_directory_documentation"
  /\ ~last.ok
  /\ directory_id(directories, last.path) # NULL
  /\ \E r \in directory_docs :
       Some(r.directory_id) = directory_id(directories, last.path) /\ r.is_current

\* A step keeps every tag row; a tag call on a cataloged directory succeeds
\* and leaves one row for each tag it names.
C9_TagStep ==
  /\ directory_tags \subseteq directory_tags'
  /\ (/\ last'.seq # last.seq
      /\ last'.op = "add_directory_tags"
      /\ directory_id(directories, last'.path) # NULL)
       => /\ last'.ok
          /\ \A i \in DOMAIN last'.tags :
               Cardinality({r \in directory_tags' :
                              /\ Some(r.directory_id) = directory_id(directories, last'.path)
                              /\ r.tag_name = last'.tags[i]}) = 1

\* C9: attaching a tag a cataloged directory already has (or naming it twice
\* in one call) leaves exactly one directory_tags row for the pair, reports
\* success, and leaves every row that was there as it was.
C9_TagIdempotent == [][C9_TagStep]_vars

\* Tag "x" was attached by one author and then again, twice in one call, by
\* another.
C9_Witness ==
  /\ last.op = "add_directory_tags"
  /\ last.ok
  /\ last.tags = <<"x", "y", "x">>
  /\ \E r \in directory_tags :
       /\ Some(r.directory_id) = directory_id(directories, last.path)
       /\ r.tag_name = "x"
       /\ r.created_by # last.by

\* A relation call with a missing endpoint returns True and changes no table.
C10_RelationStep ==
  (/\ last'.seq # last.seq
   /\ last'.op = "add_directory_relation"
   /\ \/ directory_id(directories, last'.path) = NULL
      \/ directory_id(directories, last'.other) = NULL)
    => last'.ok /\ UNCHANGED tables

\* C10: add_directory_relation with an endpoint that has no directories row
\* inserts no row, leaves every table as it was and returns without an error.
C10_RelationNoOp == [][C10_RelationStep]_vars

\* A relation was declared from a cataloged directory to one that is not.
C10_Witness ==
  /\ last.op = "add_directory_relation"
  /\ last.ok
  /\ directory_id(directories, last.path) # NULL
  /\ directory_id(directories, last.other) = NULL
  /\ directory_relations = {}

\* ---------------------------------------------------------------- C11

C11_AnnotationOps == {"add_directory_documentation", "add_directory_tags"}

\* C11: add_directory_documentation and add_directory_tags, called with a path
\* that has no row in directories, return False and leave directory_docs,
\* directory_tags and directories (and every other table) as they were.
C11_UnknownDirectoryRefused ==
  [][(/\ last' # last
      /\ last'.op \in C11_AnnotationOps
      /\ ~\E d \in directories : d.dir_path = last'.path)
       => (~last'.ok /\ UNCHANGED tables)]_vars

\* Both calls were refused for an uncataloged path while the catalog holds
\* other directories.
C11_Witness ==
  /\ directories # {}
  /\ last.op = "add_directory_tags"
  /\ ~last.ok
  /\ ~\E d \in directories : d.dir_path = last.path
  /\ calls.docs > 0
  /\ directory_docs = {}
  /\ directory_tags = {}

\* ---------------------------------------------------------------- C12

\* The step is one pass of the traversal loop.
C12_LoopPass ==
  /\ run.active
  /\ run.todo # <<>>
  /\ \/ run'.active /\ run'.todo = Tail(run.todo)
     \/ done_runs' # done_runs

\* The entries of the run whose save did not complete, after the step.
C12_FailedAfter ==
  IF run'.active THEN run'.failed ELSE done_runs'[Len(done_runs')].failed

C12_PassStep ==
  C12_LoopPass =>
    /\ Head(run.todo) \in C12_FailedAfter =>
         /\ files' = files
         /\ directories' = directories
         /\ processing_queue' = processing_queue
    /\ processing_queue' # processing_queue =>
         /\ files' # files
         /\ \E r \in files' \ files :
              /\ r.file_path = Head(run.todo)
              /\ r.processing_status = "processed"
              /\ processing_queue' \ processing_queue \subseteq
                   {q \in processing_queue' : q.file_id = Some(r.id)}
    /\ (\E r \in files' \ files : r.processing_status = "processed")
         => Cardinality(processing_queue' \ processing_queue) = 1

\* C12: when the store write for one entry fails (the file upsert, its queue
\* insert, the directory upsert or the commit), files, directories and
\* processing_queue are exactly as before the entry, no files row appears
\* without its queue row nor a queue row without its files row, and the
\* traversal goes on to the next entry.
C12_FailedWriteRolledBack == [][C12_PassStep]_vars

\* The save of a.txt failed, the run went on and saved b.xyz.
C12_Witness ==
  /\ run.active
  /\ P_a \in run.failed
  /\ P_b \in run.saved
  /\ ~\E r \in files : r.file_path = P_a
  /\ \E r \in files : r.file_path = P_b

\* ---------------------------------------------------------------- C13

\* The files rows of the path visited last.
C13_Rows == {r \in files : r.file_path = visit[1].path}

\* C13: a file whose content cannot be read or whose stat fails during a run
\* is still recorded in files: with checksum NULL and the remaining metadata
\* when only the read fails, with status 'failed' when stat fails.
C13_UnreadableStillRecorded ==
  visit # <<>> =>
    /\ (visit[1].stat_ok /\ ~visit[1].read_ok) =>
         \E r \in C13_Rows :
           /\ r.checksum = NULL
           /\ r.file_name = name(visit[1].path)
           /\ r.modified_at = fs[visit[1].path].mtime
    /\ ~visit[1].stat_ok =>
         \E r \in C13_Rows : r.processing_status = "failed"

\* The half of C13 about a failed read alone.
C13_ChecksumAbsent ==
  (visit # <<>> /\ visit[1].stat_ok /\ ~visit[1].read_ok) =>
    \E r \in C13_Rows : r.checksum = NULL /\ r.file_name = name(visit[1].path)

\* ---------------------------------------------------------------- C14

C14_DirectoryIds == {Some(d.id) : d \in directories}

\* C14, as claimed: in every reachable state every directory_docs.directory_id,
\* directory_tags.directory_id, directory_relations.source_dir_id and
\* directory_relations.target_dir_id is the id of a row of directories.
C14_AnnotationsReferToDirectory ==
  /\ \A r \in directory_docs : Some(r.directory_id) \in C14_DirectoryIds
  /\ \A r \in directory_tags : Some(r.directory_id) \in C14_DirectoryIds
  /\ \A r \in directory_relations :
       /\ r.source_dir_id \in C14_DirectoryIds
       /\ r.target_dir_id \in C14_DirectoryIds

\* ---------------------------------------------------------------- C15

\* The files rows of path p at the end of the i-th completed run.
C15_Rows(i, p) == {r \in done_runs[i].files : r.file_path = p}

\* Runs i and i + 1 went over the same root and the content of p, a file
\* under that root, was modified between them.
C15_Modified(i, p) ==
  /\ done_runs[i].root = done_runs[i + 1].root
  /\ \E k \in 1..Len(rglob(fs_order, done_runs[i].root)) :
       rglob(fs_order, done_runs[i].root)[k] = p
  /\ done_runs[i].fs[p].content # done_runs[i + 1].fs[p].content

\* C15: if a file's content is modified between two runs over the same root,
\* after the second run the path has exactly one files row, which carries the
\* checksum of the new content (different from the first run's), the file's
\* modification time and the second run's indexed_at.
C15_ChangeDetected ==
  \A i \in 1..(Len(done_runs) - 1) : \A p \in FilePaths :
    C15_Modified(i, p) =>
      /\ Cardinality(C15_Rows(i + 1, p)) = 1
      /\ \A r \in C15_Rows(i + 1, p) :
           /\ r.checksum = Some(<<"md5", done_runs[i + 1].fs[p].content>>)
           /\ r.modified_at = done_runs[i + 1].fs[p].mtime
           /\ r.indexed_at = done_runs[i + 1].at
           /\ \A r0 \in C15_Rows(i, p) : r0.checksum # r.checksum

\* d/c.TXT was indexed, modified at a later time, and indexed again.
C15_Witness ==
  /\ Len(done_runs) = 2
  /\ C15_Modified(1, P_c)
  /\ C15_Rows(1, P_c) # {}
  /\ done_runs[2].fs[P_c].mtime > done_runs[1].fs[P_c].mtime

\* ---------------------------------------------------------------- C16

C16_Terminal == {"processed", "skipped", "failed"}

\* The entries of the traversal of the current (or crashed) run.
C16_Entries == {rglob(fs_order, run.root)[k] : k \in 1..Len(rglob(fs_order, run.root))}

C16_NotYetVisited == {run.todo[k] : k \in 1..Len(run.todo)}

\* Entry p is in the committed catalog, a file with a terminal status.
C16_Present(p) ==
  IF is_file(p)
  THEN \E r \in files : r.file_path = p /\ r.processing_status \in C16_Terminal
  ELSE \E d \in directories : d.dir_path = p

\* C16: at every point of a traversal, and in the state a crash at that point
\* leaves, every entry whose save completed earlier in the run is in the
\* committed catalog with a terminal status, and an entry that is missing is
\* one not yet visited (or one whose save failed).
C16_CommittedPerEntry ==
  run.root # <<>> =>
    /\ \A p \in run.saved : C16_Present(p)
    /\ \A p \in C16_Entries :
         ~C16_Present(p) => p \in C16_NotYetVisited \cup run.failed
    /\ run.saved \cup run.failed \cup C16_NotYetVisited = C16_Entries

\* The process died after a.txt and b.xyz were saved and before d/c.TXT was
\* visited.
C16_Witness ==
  /\ ~run.active
  /\ run.saved = {P_a, P_b, P_d}
  /\ run.todo = <<P_c>>
  /\ ~C16_Present(P_c)
  /\ C16_Present(P_a)

\* ---------------------------------------------------------------- C17

\* The step is the pass of the traversal loop over a regular file.
C17_FilePass ==
  /\ run.active
  /\ run.todo # <<>>
  /\ is_file(Head(run.todo))
  /\ \/ run'.active /\ run'.todo = Tail(run.todo)
     \/ done_runs' # done_runs

\* The files rows and the queue rows the step wrote.
C17_NewFiles == files' \ files
C17_NewQueue == processing_queue' \ processing_queue

C17_SaveStep ==
  C17_FilePass =>
    /\ processing_queue \subseteq processing_queue'
    /\ \A r \in C17_NewFiles :
         r.processing_status = "processed" =>
           /\ Cardinality(C17_NewQueue) = 1
           /\ \A q \in C17_NewQueue : q.file_id = Some(r.id) /\ q.status = "pending"
    /\ (~\E r \in C17_NewFiles : r.processing_status = "processed")
         => C17_NewQueue = {}

\* C17: a processing_queue row is created exactly when a file save has status
\* 'processed': that save adds one 'pending' row whose file_id is the id of
\* the files row it wrote; a save with status 'skipped' or 'failed' adds none.
C17_QueuedIffProcessed == [][C17_SaveStep]_vars

\* A processed and a skipped file were saved and the queue holds one row, for
\* the processed one.
C17_Witness ==
  /\ \E r \in files : r.processing_status = "skipped"
  /\ \E r \in files :
       /\ r.processing_status = "processed"
       /\ processing_queue # {}
       /\ \A q \in processing_queue : q.file_id = Some(r.id) /\ q.status = "pending"

\* ---------------------------------------------------------------- C18

\* The extensions enabled in the file_formats rows ff.
C18_Enabled(ff) == {r.extension : r \in {x \in ff : x.is_enabled}}

C19_BuiltIn == {get_supported_formats[k] : k \in 1..Len(get_supported_formats)}

C19_InitStep ==
  calls'.inits # calls.inits =>
    /\ UNCHANGED tables
    /\ Cardinality(file_formats') = Cardinality({r.extension : r \in file_formats'})
    /\ \A r \in file_formats : r \in file_formats'
    /\ Cardinality(init_database({})) = 20
    /\ {r.extension : r \in init_database({})} = C19_BuiltIn
    /\ \A r \in init_database({}) : r.is_enabled

\* C19: init_database run again on an initialized catalog leaves every row of
\* every table unchanged: no file_formats extension is duplicated and no
\* toggled is_enabled flag is reset; on an empty store it yields exactly the
\* 20 built-in extensions, all enabled.
C19_InitIdempotent == [][C19_InitStep]_vars

\* init_database ran again after txt was disabled, and txt is still disabled.
C19_Witness ==
  /\ calls.inits > 0
  /\ calls.toggles > 0
  /\ last.op = "init_database"
  /\ Cardinality(file_formats) = 20
  /\ \E r \in file_formats : r.extension = <<"t", "x", "t">> /\ ~r.is_enabled

\* ---------------------------------------------------------------- C20

\* No two committed documentation rows have the same directory and version.
C20_UniqueVersion(docs) ==
  \A r1, r2 \in docs :
    (r1.directory_id = r2.directory_id /\ r1.version = r2.version) => r1 = r2

\* No two committed documentation rows of one directory are current.
C20_OneCurrent(docs) ==
  \A r1, r2 \in docs :
    (r1.directory_id = r2.directory_id /\ r1.is_current /\ r2.is_current) => r1 = r2

C20_Step ==
  /\ C20_UniqueVersion(directory_docs')
  /\ C20_OneCurrent(directory_docs')
  /\ \A s \in Processes :
       (sessions[s].pc # "idle" /\ sessions'[s].pc = "idle" /\ ~sessions'[s].ok)
         => UNCHANGED tables

\* C20: when add_directory_documentation calls of two processes for one
\* directory interleave statement by statement, no committed state has two
\* directory_docs rows with the same (directory_id, version) or two current
\* rows of that directory, and a call that fails leaves every table as it was.
C20_RaceLeavesOneVersion == [][C20_Step]_vars

\* Both processes read version 1 before either wrote; p1 committed it and p2
\* failed on the UNIQUE constraint.
C20_Witness ==
  /\ sessions["p1"].pc = "idle" /\ sessions["p1"].ok /\ sessions["p1"].version = 1
  /\ sessions["p2"].pc = "idle" /\ ~sessions["p2"].ok /\ sessions["p2"].version = 1
  /\ sessions["p2"].error = "unique"
  /\ sessions["p1"].dir_id = sessions["p2"].dir_id
  /\ Cardinality(directory_docs) = 1
  /\ \A r \in directory_docs : r.is_current /\ r.version = 1

\* ---------------------------------------------------------------- C21

\* The files rows with status 'processed' that the i-th completed run saved:
\* those of the paths under its root.
C21_Processed(i) ==
  {r \in done_runs[i].files :
     /\ r.processing_status = "processed"
     /\ \E k \in 1..Len(rglob(fs_order, done_runs[i].root)) :
          rglob(fs_order, done_runs[i].root)[k] = r.file_path}

\* The queue length before the i-th completed run.
C21_QueueBefore(i) == IF i = 1 THEN 0 ELSE done_runs[i - 1].n_queue

\* The first k completed runs all went over d, which holds the one convertible
\* file d/c.TXT, unchanged.
C21_RunsOverD(k) ==
  \A i \in 1..k :
    /\ done_runs[i].root = P_d
    /\ done_runs[i].fsver = done_runs[1].fsver

\* C21: every run that saves a file as 'processed' appends a 'pending'
\* processing_queue row for it, so after k runs over an unchanged root with
\* one convertible file the queue holds k rows and files holds one row.
C21_QueueGrowsPerRun ==
  /\ \A q \in processing_queue : q.status = "pending"
  /\ \A i \in 1..Len(done_runs) :
       /\ done_runs[i].n_queue = C21_QueueBefore(i) + Cardinality(C21_Processed(i))
       /\ C21_RunsOverD(i) =>
            /\ done_runs[i].n_queue = i
            /\ Cardinality({r \in done_runs[i].files : r.file_path = P_c}) = 1
            /\ done_runs[i].n_files = 1

\* d was indexed twice, unchanged: two queue rows, one files row.
C21_Witness ==
  /\ Len(done_runs) = 2
  /\ C21_RunsOverD(2)
  /\ Cardinality(processing_queue) = 2
  /\ Cardinality(files) = 1

\* ---------------------------------------------------------------- C22

\* The step is the pass of the traversal loop over a directory that has a
\* directories row with documentation.
C22_ReindexDocumented ==
  /\ run.active
  /\ run.todo # <<>>
  /\ is_dir(Head(run.todo))
  /\ \/ run'.active /\ run'.todo = Tail(run.todo)
     \/ done_runs' # done_runs
  /\ \E d \in directories :
       /\ d.dir_path = Head(run.todo)
       /\ \E r \in directory_docs : r.directory_id = d.id

\* What a lookup by path finds after the step: the row of the path, its
\* current documentation and its tags.
C22_RowsAfter(p) == {d \in directories' : d.dir_path = p}
C22_DocsAfter(p) ==
  {r \in directory_docs' : Some(r.directory_id) = directory_id(directories', p)}
C22_TagsAfter(p) ==
  {r \in directory_tags' : Some(r.directory_id) = directory_id(directories', p)}

C22_ReindexStep ==
  C22_ReindexDocumented =>
    /\ Cardinality(C22_RowsAfter(Head(run.todo))) = 1
    /\ \A d \in C22_RowsAfter(Head(run.todo)) :
         /\ d.id \notin {x.id : x \in directories}
         /\ d.last_documented_at = NULL
    /\ C22_DocsAfter(Head(run.todo)) = {}
    /\ C22_TagsAfter(Head(run.todo)) = {}
    /\ directory_docs' = directory_docs
    /\ directory_tags' = directory_tags

\* A documentation call that commits, for a directory whose current row has
\* no documentation, inserts version 1, whatever rows older ids of the path
\* have.
C22_DocStep ==
  (/\ doc_log' # doc_log
   /\ ~\E r \in directory_docs : Some(r.directory_id) = directory_id(directories, last'.path))
    => \A r \in directory_docs' \ directory_docs :
         /\ Some(r.directory_id) = directory_id(directories, last'.path)
         /\ r.version = 1
         /\ r.is_current

\* C22: re-indexing a directory that has documentation replaces its
\* directories row with a fresh one (new id, last_documented_at NULL): a
\* lookup by path then finds no current documentation and no tags, and the
\* next add_directory_documentation for the path inserts version 1 again.
C22_ReindexOrphansAnnotations == [][C22_ReindexStep /\ C22_DocStep]_vars

\* d was documented and tagged, re-indexed, and documented again: two rows
\* with version 1, both current, and tags that the path no longer finds.
C22_Witness ==
  /\ Cardinality(directory_docs) = 2
  /\ \A r \in directory_docs : r.version = 1 /\ r.is_current
  /\ \E r \in directory_docs : Some(r.directory_id) = directory_id(directories, P_d)
  /\ directory_tags # {}
  /\ ~\E r \in directory_tags : Some(r.directory_id) = directory_id(directories, P_d)

====
